---- MODULE Spec2Model ----
(***************************************************************************)
(* Model of ase/io/v_sim.py (ASE 3.22.1): read_v_sim and write_v_sim.      *)
(*                                                                         *)
(* Text is modelled at the character level: a line is a sequence of        *)
(* one-character strings (without its trailing newline), a stream is a     *)
(* sequence of lines.  Floating-point numbers are modelled as fixed-point  *)
(* integers counting units of 10^-FracDigits; products and quotients round *)
(* to the nearest unit, as float arithmetic rounds to the nearest float.   *)
(***************************************************************************)
EXTENDS Integers, Sequences, FiniteSets, TLC

\* ------------------------------------------------------------------ bounds
\* Number of body lines (after the title and the two header lines) of a file.
MaxBody == 3
\* Number of atoms of a record handed to write_v_sim.
MaxAtoms == 2
\* Decimal digits kept after the point by the fixed-point numbers.
FracDigits == 2
\* Floating-point tolerance of a position comparison, in fixed-point units.
Tol == 2

Scale == 10 ^ FracDigits

\* ------------------------------------------------------------- arithmetic
Abs(n) == IF n < 0 THEN -n ELSE n
Sign(n) == IF n < 0 THEN -1 ELSE 1

\* a / b rounded to the nearest integer (b # 0).
RoundDiv(a, b) == Sign(a) * Sign(b) * ((2 * Abs(a) + Abs(b)) \div (2 * Abs(b)))

\* Product and quotient of two fixed-point numbers.
Mul(a, b) == RoundDiv(a * b, Scale)
Div(a, b) == RoundDiv(a * Scale, b)

\* A value given in millionths, as a fixed-point number.
Micro(u) == RoundDiv(u * Scale, 1000000)

\* units.Bohr = 0.52917721... angstrom.
Bohr == Micro(529177)

\* ------------------------------------------------------------- characters
Digits == <<"0", "1", "2", "3", "4", "5", "6", "7", "8", "9">>
DigitSet == {Digits[i] : i \in 1..10}
DigitVal(c) == (CHOOSE i \in 1..10 : Digits[i] = c) - 1

UpperCase == <<"A", "B", "C", "D", "E", "F", "G", "H", "I", "J", "K", "L", "M",
               "N", "O", "P", "Q", "R", "S", "T", "U", "V", "W", "X", "Y", "Z">>
LowerCase == <<"a", "b", "c", "d", "e", "f", "g", "h", "i", "j", "k", "l", "m",
               "n", "o", "p", "q", "r", "s", "t", "u", "v", "w", "x", "y", "z">>

\* str.lower() on one character.
LowerChar(c) ==
    IF \E i \in 1..26 : UpperCase[i] = c
    THEN LowerCase[CHOOSE i \in 1..26 : UpperCase[i] = c]
    ELSE c

\* \s of the regular expressions, and the separators of str.split().
IsSpace(c) == c \in {" ", "\t"}

\* str.lower() and str.replace(',', ' ') on a string.
Lower(s) == [i \in 1..Len(s) |-> LowerChar(s[i])]
ReplaceComma(s) == [i \in 1..Len(s) |-> IF s[i] = "," THEN " " ELSE s[i]]

\* s[n:] of Python (n counted from 0).
From(s, n) == SubSeq(s, n + 1, Len(s))

Range(s) == {s[i] : i \in 1..Len(s)}

\* Index of the first character of s at or after i that is not white space
\* (Len(s) + 1 when there is none).
RECURSIVE SkipSpace(_, _)
SkipSpace(s, i) ==
    IF i <= Len(s) /\ IsSpace(s[i]) THEN SkipSpace(s, i + 1) ELSE i

\* Index of the first white-space character of s at or after i.
RECURSIVE SkipWord(_, _)
SkipWord(s, i) ==
    IF i <= Len(s) /\ ~IsSpace(s[i]) THEN SkipWord(s, i + 1) ELSE i

\* str.split(): the maximal runs of characters that are not white space.
RECURSIVE SplitFrom(_, _)
SplitFrom(s, i) ==
    LET b == SkipSpace(s, i)
        e == SkipWord(s, b)
    IN  IF b > Len(s) THEN <<>>
        ELSE <<SubSeq(s, b, e - 1)>> \o SplitFrom(s, e)

Split(s) == SplitFrom(s, 1)

\* ---------------------------------------------------------------- numbers
RECURSIVE DigitsToInt(_)
DigitsToInt(s) ==
    IF s = <<>> THEN 0
    ELSE 10 * DigitsToInt(SubSeq(s, 1, Len(s) - 1)) + DigitVal(s[Len(s)])

IsDigits(s) == \A i \in 1..Len(s) : s[i] \in DigitSet

\* The first FracDigits digits of a fraction part, as a count of units.
FracToInt(s) ==
    DigitsToInt([i \in 1..FracDigits |-> IF i <= Len(s) THEN s[i] ELSE "0"])

NaN == [ok |-> FALSE, val |-> 0]

\* float(token) for the tokens of the model: sign, digits, optional point
\* and digits (no exponent, inf or nan).  Anything else is the ValueError of
\* float().
ParseFloat(tok) ==
    LET neg  == tok # <<>> /\ tok[1] = "-"
        body == IF neg THEN Tail(tok) ELSE tok
        dots == {i \in 1..Len(body) : body[i] = "."}
        dot  == IF dots = {} THEN Len(body) + 1 ELSE CHOOSE i \in dots : TRUE
        ip   == SubSeq(body, 1, dot - 1)
        fp   == SubSeq(body, dot + 1, Len(body))
    IN  IF Cardinality(dots) <= 1 /\ IsDigits(ip) /\ IsDigits(fp)
           /\ Len(ip) + Len(fp) >= 1
        THEN [ok |-> TRUE,
              val |-> (IF neg THEN -1 ELSE 1) * (DigitsToInt(ip) * Scale + FracToInt(fp))]
        ELSE NaN

RECURSIVE IntToDigits(_)
IntToDigits(n) ==
    IF n < 10 THEN <<Digits[n + 1]>>
    ELSE IntToDigits(n \div 10) \o <<Digits[(n % 10) + 1]>>

\* The FracDigits digits of f, without trailing zeros, at least one digit.
RECURSIVE StripZeros(_)
StripZeros(s) ==
    IF Len(s) > 1 /\ s[Len(s)] = "0" THEN StripZeros(SubSeq(s, 1, Len(s) - 1)) ELSE s

FracDigitsOf(f) ==
    StripZeros([i \in 1..FracDigits |->
                  Digits[((f \div (10 ^ (FracDigits - i))) % 10) + 1]])

\* '{0}'.format(x) of a float: its repr, such as 2.0, 0.25, -1.5.
FormatFloat(x) ==
    (IF x < 0 THEN <<"-">> ELSE <<>>)
    \o IntToDigits(Abs(x) \div Scale) \o <<".">> \o FracDigitsOf(Abs(x) % Scale)

\* ' '.join(tokens)
RECURSIVE Join(_)
Join(toks) ==
    IF toks = <<>> THEN <<>>
    ELSE IF Len(toks) = 1 THEN toks[1]
    ELSE toks[1] \o <<" ">> \o Join(Tail(toks))

\* ------------------------------------------------------------------ words
W_keyword   == <<"k", "e", "y", "w", "o", "r", "d", ":">>
W_reduced   == <<"r", "e", "d", "u", "c", "e", "d">>
W_angstroem == <<"a", "n", "g", "s", "t", "r", "o", "e", "m">>
W_bohr      == <<"b", "o", "h", "r">>
W_bohrd0    == <<"b", "o", "h", "r", "d", "0">>
W_atomic    == <<"a", "t", "o", "m", "i", "c">>
W_atomicd0  == <<"a", "t", "o", "m", "i", "c", "d", "0">>
W_angdeg    == <<"a", "n", "g", "d", "e", "g">>
W_periodic  == <<"p", "e", "r", "i", "o", "d", "i", "c">>
W_freeBC    == <<"f", "r", "e", "e", "B", "C">>
W_surface   == <<"s", "u", "r", "f", "a", "c", "e">>

\* '#keyword: <word>', the keyword lines write_v_sim writes.
KeywordLine(word) == <<"#">> \o W_keyword \o <<" ">> \o word

\* The title line write_v_sim writes.
TitleLine ==
    <<"=", "=", "=", "=", "=", " ", "v", "_", "s", "i", "m", " ", "i", "n",
      "p", "u", "t", " ", "f", "i", "l", "e", " ", "c", "r", "e", "a", "t",
      "e", "d", " ", "u", "s", "i", "n", "g", " ", "t", "h", "e", " ", "A",
      "t", "o", "m", "i", "c", " ", "S", "i", "m", "u", "l", "a", "t", "i",
      "o", "n", " ", "E", "n", "v", "i", "r", "o", "n", "m", "e", "n", "t",
      " ", "(", "A", "S", "E", ")", " ", "=", "=", "=", "=">>

\* ---------------------------------------------------------------- geometry
\* A cell is three row vectors; every cell of the model is lower triangular
\* (read_v_sim and cellpar_to_cell build no other kind).
ZeroCell == <<<<0, 0, 0>>, <<0, 0, 0>>, <<0, 0, 0>>>>

ScaleCell(cell, u) == [i \in 1..3 |-> [j \in 1..3 |-> Mul(u, cell[i][j])]]

\* cos and sin of an angle given in whole degrees, as numpy computes them
\* (cellpar_to_cell takes 90 degrees as exactly cos 0, sin 1).
CosDeg(d) ==
    CASE d = 0  -> Micro(1000000)
      [] d = 4  -> Micro(997564)
      [] d = 5  -> Micro(996195)
      [] d = 6  -> Micro(994522)
      [] d = 60 -> Micro(500000)
      [] d = 90 -> 0

SinDeg(d) ==
    CASE d = 0  -> 0
      [] d = 4  -> Micro(69756)
      [] d = 5  -> Micro(87156)
      [] d = 6  -> Micro(104528)
      [] d = 60 -> Micro(866025)
      [] d = 90 -> Micro(1000000)

\* Square root of a fixed-point number x >= 0, to the nearest unit below.
Sqrt(x) == CHOOSE r \in 0..(x + Scale) : r * r <= x * Scale /\ (r + 1) * (r + 1) > x * Scale

NoCell == [ok |-> FALSE, error |-> "ValueError", cell |-> ZeroCell]

\* ase.geometry.cellpar_to_cell(cellpar) for a sequence of numbers: a along
\* x, b in the xy-plane, c placed to satisfy the three angles.  One number
\* is a cube, three are (a, b, c) with right angles, six are (a, b, c, alpha,
\* beta, gamma); the angles must describe a cell (assert cz_sqr >= 0).
cellpar_to_cell(cellpar) ==
    IF Len(cellpar) \notin {1, 3, 6} THEN NoCell
    ELSE
    LET n == Len(cellpar)
        a == cellpar[1]
        b == IF n = 1 THEN a ELSE cellpar[2]
        c == IF n = 1 THEN a ELSE cellpar[3]
        alpha == IF n = 6 THEN cellpar[4] \div Scale ELSE 90
        beta  == IF n = 6 THEN cellpar[5] \div Scale ELSE 90
        gamma == IF n = 6 THEN cellpar[6] \div Scale ELSE 90
        cos_alpha == CosDeg(alpha)
        cos_beta  == CosDeg(beta)
        cos_gamma == CosDeg(gamma)
        sin_gamma == SinDeg(gamma)
        cx == cos_beta
        cy == Div(cos_alpha - Mul(cos_beta, cos_gamma), sin_gamma)
        cz_sqr == Scale - Mul(cx, cx) - Mul(cy, cy)
    IN  IF sin_gamma = 0 \/ cz_sqr < 0
        THEN [ok |-> FALSE, error |-> "AssertionError", cell |-> ZeroCell]
        ELSE [ok |-> TRUE, error |-> "none",
              cell |-> << <<a, 0, 0>>,
                          <<Mul(b, cos_gamma), Mul(b, sin_gamma), 0>>,
                          <<Mul(c, cx), Mul(c, cy), Mul(c, Sqrt(cz_sqr))>> >>]

\* cellpar_to_cell(cell_to_cellpar(cell)) for a lower-triangular cell with a
\* non-zero diagonal: the lower-triangular cell with a positive diagonal that
\* has the same lengths and angles, which is the cell with each column
\* multiplied by the sign of its diagonal entry.
Canonical(cell) ==
    [i \in 1..3 |-> [j \in 1..3 |-> Sign(cell[j][j]) * cell[i][j]]]

\* Lengths and angles of a lower-triangular cell, as its Gram matrix (the
\* dot products of its rows determine cell_to_cellpar(cell)).
Gram(cell) ==
    [i \in 1..3 |-> [j \in 1..3 |->
        cell[i][1] * cell[j][1] + cell[i][2] * cell[j][2] + cell[i][3] * cell[j][3]]]

\* positions = scaled_positions . cell (Atoms.__init__ with scaled_positions).
ScaledToAbs(cell, f) ==
    [j \in 1..3 |-> Mul(f[1], cell[1][j]) + Mul(f[2], cell[2][j]) + Mul(f[3], cell[3][j])]

\* Cell.scaled_positions: the solution f of f . cell = p, for a
\* lower-triangular cell by back substitution.
AbsToScaled(cell, p) ==
    LET f3 == Div(p[3], cell[3][3])
        f2 == Div(p[2] - Mul(f3, cell[3][2]), cell[2][2])
        f1 == Div(p[1] - Mul(f2, cell[2][1]) - Mul(f3, cell[3][1]), cell[1][1])
    IN  <<f1, f2, f3>>

\* Atoms.get_scaled_positions(): scaled positions, wrapped into [0, 1) along
\* the periodic axes.
get_scaled_positions(atoms) ==
    [k \in 1..Len(atoms.positions) |->
        LET f == AbsToScaled(atoms.cell, atoms.positions[k])
        IN  [i \in 1..3 |-> IF atoms.pbc[i] THEN f[i] % Scale ELSE f[i]]]

NoPbc == <<FALSE, FALSE, FALSE>>
NoAtoms == [cell |-> ZeroCell, positions |-> <<>>, symbols |-> <<>>, pbc |-> NoPbc]

\* Atoms(cell=cell, positions=positions) followed by set_chemical_symbols:
\* pbc defaults to False along every axis.
AtomsAbs(cell, positions, symbols) ==
    [cell |-> cell, positions |-> positions, symbols |-> symbols, pbc |-> NoPbc]

\* Atoms(cell=cell, scaled_positions=positions) followed by
\* set_chemical_symbols.
AtomsScaled(cell, positions, symbols) ==
    [cell |-> cell,
     positions |-> [k \in 1..Len(positions) |-> ScaledToAbs(cell, positions[k])],
     symbols |-> symbols, pbc |-> NoPbc]

\* ------------------------------------------------------------- read_v_sim
\* re_comment = re.compile(r'^\s*[#!]'): p.end() of the match, the number of
\* characters up to and including the comment character; 0 for no match.
re_comment(line) ==
    LET i == SkipSpace(line, 1)
    IN  IF i <= Len(line) /\ line[i] \in {"#", "!"} THEN i ELSE 0

\* re_node = re.compile(r'^\s*\S+\s+\S+\s+\S+\s+\S+'): four runs of
\* characters that are not white space, separated by white space.
\* End of the k-th run (k runs are still to match from index i, each after
\* the first preceded by white space), 0 when the line does not match.
RECURSIVE MatchRuns(_, _, _, _)
MatchRuns(line, i, k, first) ==
    LET b == SkipSpace(line, i)
        e == SkipWord(line, b)
    IN  IF k = 0 THEN i
        ELSE IF e = b \/ (~first /\ b = i) THEN 0
        ELSE MatchRuns(line, e, k - 1, FALSE)

\* A pattern of five runs in place of four.
re_node_five(line) == MatchRuns(line, 1, 5, TRUE) > 0

re_node(line) == MatchRuns(line, 1, 4, TRUE) > 0

\* The rest of the line stripped of white space before it is compared.
KeywordTokens_strip(line, end) ==
    LET rest == Lower(ReplaceComma(From(line, SkipSpace(line, end + 1) - 1)))
    IN  IF Len(rest) >= 8 /\ SubSeq(rest, 1, 8) = W_keyword
        THEN Split(From(rest, 8))
        ELSE <<>>

\* The tokens a comment line adds to keywords; end is p.end() of re_comment.
KeywordTokens(line, end) ==
    LET rest == Lower(ReplaceComma(From(line, end)))
    IN  IF Len(rest) >= 8 /\ SubSeq(rest, 1, 8) = W_keyword
        THEN Split(From(rest, 8))
        ELSE <<>>

\* ("bohr" in keywords) or ("bohrd0" in keywords) or ("atomic" in keywords)
\* or ("atomicd0" in keywords)
BohrFamily(kw) ==
    \/ W_bohr \in Range(kw)
    \/ W_bohrd0 \in Range(kw)
    \/ W_atomic \in Range(kw)
    \/ W_atomicd0 \in Range(kw)

\* The unit a node line's coordinates are multiplied by, from the keywords
\* read before that line.
NodeUnit(kw) ==
    IF W_reduced \notin Range(kw) /\ BohrFamily(kw) THEN Bohr ELSE Scale

\* The boundary keywords compared in lower case, as keywords holds them.
Unsupported_lower(kw) == W_surface \in Range(kw) \/ Lower(W_freeBC) \in Range(kw)

\* ("surface" in keywords) or ("freeBC" in keywords)
Unsupported(kw) == W_surface \in Range(kw) \/ W_freeBC \in Range(kw)

\* The unit the cell is multiplied by when angdeg is absent.
CellUnit(kw) == IF BohrFamily(kw) THEN Bohr ELSE Scale

\* cell.flat[[0, 3, 4, 6, 7, 8]] = box[:6]: numpy needs six values.
FillCell(b) ==
    IF Len(b) < 6 THEN NoCell
    ELSE [ok |-> TRUE, error |-> "none",
          cell |-> << <<b[1], 0, 0>>, <<b[2], b[3], 0>>, <<b[4], b[5], b[6]>> >>]

\* The unit factor applied to the cell in both branches.
ResolveCell_unit(b, kw) ==
    LET res == IF W_angdeg \in Range(kw) THEN cellpar_to_cell(b) ELSE FillCell(b)
    IN  [res EXCEPT !.cell = ScaleCell(@, CellUnit(kw))]

\* The cell of the record, from the header numbers and the keywords.
ResolveCell(b, kw) ==
    IF W_angdeg \in Range(kw) THEN cellpar_to_cell(b)
    ELSE LET filled == FillCell(b)
         IN  [filled EXCEPT !.cell = ScaleCell(@, CellUnit(kw))]

\* ------------------------------------------------------------ write_v_sim
\* The lines written before the periodicity is looked at: the title, the
\* two header lines of the triangular cell, and the two keyword lines.
HeaderLines(cell) ==
    << TitleLine,
       Join(<<FormatFloat(cell[1][1]), FormatFloat(cell[2][1]), FormatFloat(cell[2][2])>>),
       Join(<<FormatFloat(cell[3][1]), FormatFloat(cell[3][2]), FormatFloat(cell[3][3])>>),
       KeywordLine(W_reduced),
       KeywordLine(W_angstroem) >>

\* The surface pattern taken to be free along z.
PbcWord_z(pbc) ==
    IF pbc[1] /\ pbc[2] /\ pbc[3] THEN W_periodic
    ELSE IF ~(pbc[1] \/ pbc[2] \/ pbc[3]) THEN W_freeBC
    ELSE IF pbc = <<TRUE, TRUE, FALSE>> THEN W_surface
    ELSE <<>>

\* The periodicity keyword for atoms.pbc; <<>> for a pattern that raises.
PbcWord(pbc) ==
    IF pbc[1] /\ pbc[2] /\ pbc[3] THEN W_periodic
    ELSE IF ~(pbc[1] \/ pbc[2] \/ pbc[3]) THEN W_freeBC
    ELSE IF pbc = <<TRUE, FALSE, TRUE>> THEN W_surface
    ELSE <<>>

\* The first two coordinates written in the other order.
AtomLine_swapped(position, symbol) ==
    Join(<<FormatFloat(position[2]), FormatFloat(position[1]),
           FormatFloat(position[3]), symbol>>)

\* '{0} {1} {2} {3}\n'.format(position[0], position[1], position[2], symbol)
AtomLine(position, symbol) ==
    Join(<<FormatFloat(position[1]), FormatFloat(position[2]),
           FormatFloat(position[3]), symbol>>)

\* ------------------------------------------------------------------ state
VARIABLES
    todo,       \* the calls still to make, in order: "read" or "write"
    pc,         \* the position inside the current call
    file,       \* the file the first read_v_sim is given (<<>> when none)
    given,      \* the record the round trip starts from
    fd,         \* the lines of the stream read_v_sim reads
    fpos,       \* how many lines of fd have been read
    box,        \* read_v_sim: the header numbers
    keywords,   \* read_v_sim: the keyword tokens read so far
    positions,  \* read_v_sim: the coordinates read so far
    symbols,    \* read_v_sim: the species labels read so far
    unit,       \* read_v_sim: the unit factor last assigned
    atoms,      \* the record read_v_sim returned, or write_v_sim is given
    out,        \* the lines write_v_sim has written
    err         \* the exception that ended a call, or "none"

vars == <<todo, pc, file, given, fd, fpos, box, keywords, positions, symbols,
          unit, atoms, out, err>>

locals == <<box, keywords, positions, symbols, unit>>

\* The position a call starts at.
Entry(calls) ==
    IF calls = <<>> THEN "done"
    ELSE IF Head(calls) = "read" THEN "title" ELSE "begin"

\* A call returns: the next call starts, a read on the stream just written.
Return ==
    /\ todo' = Tail(todo)
    /\ pc' = Entry(Tail(todo))

\* A call raises: nothing further runs.
Raise(e) ==
    /\ err' = e
    /\ pc' = "done"
    /\ todo' = todo

\* fd.readline() of the comment line (line 23).
ReadTitle ==
    /\ pc = "title"
    /\ fpos' = IF fpos < Len(fd) THEN fpos + 1 ELSE fpos
    /\ pc' = "box"
    /\ box' = <<>>
    /\ keywords' = <<>>
    /\ positions' = <<>>
    /\ symbols' = <<>>
    /\ unit' = Scale
    /\ UNCHANGED <<todo, file, given, fd, atoms, out, err>>

\* The next line of the stream, '' at its end.
Readline(k) == IF fpos + k <= Len(fd) THEN fd[fpos + k] ELSE <<>>

\* The two header lines, split and converted to floats (lines 25-28).
ReadBox ==
    /\ pc = "box"
    /\ LET toks == Split(Readline(1) \o <<" ">> \o Readline(2))
           nums == [i \in 1..Len(toks) |-> ParseFloat(toks[i])]
       IN  /\ fpos' = IF fpos + 2 <= Len(fd) THEN fpos + 2 ELSE Len(fd)
           /\ IF \A i \in 1..Len(toks) : nums[i].ok
              THEN /\ box' = [i \in 1..Len(toks) |-> nums[i].val]
                   /\ pc' = "body"
                   /\ UNCHANGED <<todo, err>>
              ELSE /\ box' = box
                   /\ Raise("ValueError")
    /\ UNCHANGED <<file, given, fd, keywords, positions, symbols, unit, atoms, out>>

\* One pass of the loop over the body: a comment line, a node line or a
\* line that is neither (lines 39-62).
ReadBodyLine ==
    /\ pc = "body"
    /\ fpos < Len(fd)
    /\ fpos' = fpos + 1
    /\ LET line == fd[fpos + 1]
           end == re_comment(line)
           fields == Split(line)
           x == ParseFloat(fields[1])
           y == ParseFloat(fields[2])
           z == ParseFloat(fields[3])
           u == NodeUnit(keywords)
       IN  IF end > 0
           THEN /\ keywords' = keywords \o KeywordTokens(line, end)
                /\ UNCHANGED <<todo, pc, positions, symbols, unit, err>>
           ELSE IF re_node(line)
           THEN /\ unit' = u
                /\ keywords' = keywords
                /\ IF x.ok /\ y.ok /\ z.ok
                   THEN /\ positions' = Append(positions,
                                <<Mul(u, x.val), Mul(u, y.val), Mul(u, z.val)>>)
                        /\ symbols' = Append(symbols, fields[4])
                        /\ UNCHANGED <<todo, pc, err>>
                   ELSE /\ Raise("ValueError")
                        /\ UNCHANGED <<positions, symbols>>
           ELSE UNCHANGED <<todo, pc, keywords, positions, symbols, unit, err>>
    /\ UNCHANGED <<file, given, fd, box, atoms, out>>

\* End of the stream: the boundary check, the cell and the record
\* (lines 41-42 and 64-85).
Finish ==
    /\ pc = "body"
    /\ fpos >= Len(fd)
    /\ LET res == ResolveCell(box, keywords)
           made == IF W_reduced \in Range(keywords)
                   THEN AtomsScaled(res.cell, positions, symbols)
                   ELSE AtomsAbs(res.cell, positions, symbols)
       IN  IF Unsupported(keywords)
           THEN /\ Raise("NotImplementedError")
                /\ UNCHANGED <<unit, atoms, given>>
           ELSE /\ unit' = IF W_angdeg \in Range(keywords) THEN unit ELSE CellUnit(keywords)
                /\ IF res.ok
                   THEN /\ atoms' = made
                        /\ given' = IF fd = file THEN made ELSE given
                        /\ Return
                        /\ err' = err
                   ELSE /\ Raise(res.error)
                        /\ UNCHANGED <<atoms, given>>
    /\ UNCHANGED <<file, fd, fpos, box, keywords, positions, symbols, out>>

\* The canonical cell and the lines up to the two keyword lines
\* (lines 98-110).
WriteHeader ==
    /\ pc = "begin"
    /\ out' = HeaderLines(Canonical(atoms.cell))
    /\ pc' = "pbc"
    /\ UNCHANGED <<todo, file, given, fd, fpos, locals, atoms, err>>

\* The periodicity looked at before anything is kept in the stream.
WritePbc_first ==
    /\ pc = "pbc"
    /\ IF PbcWord(atoms.pbc) # <<>>
       THEN /\ out' = Append(out, KeywordLine(PbcWord(atoms.pbc)))
            /\ pc' = "atoms"
            /\ UNCHANGED <<todo, err>>
       ELSE /\ Raise("Exception")
            /\ out' = <<>>
    /\ UNCHANGED <<file, given, fd, fpos, locals, atoms>>

\* The periodicity keyword line, or the exception (lines 111-121).
WritePbc ==
    /\ pc = "pbc"
    /\ IF PbcWord(atoms.pbc) # <<>>
       THEN /\ out' = Append(out, KeywordLine(PbcWord(atoms.pbc)))
            /\ pc' = "atoms"
            /\ UNCHANGED <<todo, err>>
       ELSE /\ Raise("Exception")
            /\ out' = out
    /\ UNCHANGED <<file, given, fd, fpos, locals, atoms>>

\* One line per atom, scaled positions and symbol (lines 123-127); the
\* stream written is what a following read_v_sim reads.
WriteAtoms ==
    /\ pc = "atoms"
    /\ LET scaled == get_scaled_positions(atoms)
           written == out \o [k \in 1..Len(scaled) |-> AtomLine(scaled[k], atoms.symbols[k])]
       IN  /\ out' = written
           /\ fd' = written
    /\ fpos' = 0
    /\ Return
    /\ UNCHANGED <<file, given, locals, atoms, err>>

ReadNext == ReadTitle \/ ReadBox \/ ReadBodyLine \/ Finish

Next == ReadTitle \/ ReadBox \/ ReadBodyLine \/ Finish \/ WriteHeader \/ WritePbc \/ WriteAtoms

\* ----------------------------------------------------------------- inputs
Seqs(S, n) == UNION {[1..k -> S] : k \in 0..n}

L_title   == <<"t", "i", "t", "l", "e">>
L_reduced == KeywordLine(W_reduced)
L_bohr    == KeywordLine(W_bohr)
L_surface == KeywordLine(W_surface)
L_freeBC  == KeywordLine(W_freeBC)
\* '  !keyword: angdeg': leading white space and the other comment character
L_angdeg  == <<" ", " ", "!">> \o W_keyword \o <<" ">> \o W_angdeg
\* '# keyword: reduced': white space between the comment character and keyword:
L_spaced  == <<"#", " ">> \o W_keyword \o <<" ">> \o W_reduced
\* '#KEYWORD: Reduced,Bohr'
L_upper   == <<"#", "K", "E", "Y", "W", "O", "R", "D", ":", " ",
               "R", "e", "d", "u", "c", "e", "d", ",", "B", "o", "h", "r">>
\* '# a b c d': a comment of four tokens
L_comment == <<"#", " ", "a", " ", "b", " ", "c", " ", "d">>
\* '1 0 0 H' and '0.5 1.5 -1 O': node lines
L_nodeH   == <<"1", " ", "0", " ", "0", " ", "H">>
L_nodeO   == <<"0", ".", "5", " ", "1", ".", "5", " ", "-", "1", " ", "O">>
\* '1 0 H': three tokens
L_short   == <<"1", " ", "0", " ", "H">>
\* '1 x 0 H': a node line whose second token is no number
L_bad     == <<"1", " ", "x", " ", "0", " ", "H">>

BodyLines == {L_reduced, L_bohr, L_surface, L_freeBC, L_angdeg, L_spaced,
              L_upper, L_comment, L_nodeH, L_nodeO, L_short, L_bad}

\* Headers: '1 2 3' / '4 5 6', '2 2 2' / '90 90 60', '2 x 2' / '0 0 2',
\* '2 0 2' / '0 0'.
H_distinct == << <<"1", " ", "2", " ", "3">>, <<"4", " ", "5", " ", "6">> >>
H_hex      == << <<"2", " ", "2", " ", "2">>, <<"9", "0", " ", "9", "0", " ", "6", "0">> >>
H_bad      == << <<"2", " ", "x", " ", "2">>, <<"0", " ", "0", " ", "2">> >>
H_short    == << <<"2", " ", "0", " ", "2">>, <<"0", " ", "0">> >>
\* '2 0 2' / '0 0 2', '-2 0 2' / '0 0 2', '2 1 2' / '1 1 4'
H_cube     == << <<"2", " ", "0", " ", "2">>, <<"0", " ", "0", " ", "2">> >>
H_mirror   == << <<"-", "2", " ", "0", " ", "2">>, <<"0", " ", "0", " ", "2">> >>
H_skew     == << <<"2", " ", "1", " ", "2">>, <<"1", " ", "1", " ", "4">> >>

Headers == {H_distinct, H_hex, H_bad, H_short}

Files == {<<L_title>> \o h \o b : h \in Headers, b \in Seqs(BodyLines, MaxBody)}

\* The files of the idempotence check: small cells read as a matrix, and a
\* cell given by lengths and angles.
IdemLines == {L_reduced, L_bohr, L_nodeH, L_nodeO}

IdemFiles ==
    {<<L_title>> \o h \o b : h \in {H_cube, H_mirror, H_skew}, b \in Seqs(IdemLines, MaxBody)}
    \cup {<<L_title>> \o H_hex \o <<L_angdeg>> \o b : b \in Seqs(IdemLines, MaxBody - 1)}

\* The records of the round-trip check.
Half(n) == (n * Scale) \div 2
W_H == <<"H">>
W_O == <<"O">>

TripCells ==
    { << <<Half(4), 0, 0>>, <<0, Half(4), 0>>, <<0, 0, Half(4)>> >>,
      << <<Half(-4), 0, 0>>, <<0, Half(4), 0>>, <<0, 0, Half(4)>> >>,
      << <<Half(4), 0, 0>>, <<Half(2), Half(4), 0>>, <<Half(2), Half(2), Half(8)>> >> }

TripAtoms ==
    { <<<<Half(2), 0, 0>>, W_H>>,
      <<<<Half(3), Half(2), Half(2)>>, W_O>>,
      <<<<Half(5), Half(-1), Half(2)>>, W_H>> }

Records ==
    {[cell |-> c,
      positions |-> [k \in 1..Len(a) |-> a[k][1]],
      symbols |-> [k \in 1..Len(a) |-> a[k][2]],
      pbc |-> p] :
        c \in TripCells, a \in Seqs(TripAtoms, MaxAtoms),
        p \in [1..3 -> BOOLEAN]}

InitCommon ==
    /\ fpos = 0
    /\ box = <<>>
    /\ keywords = <<>>
    /\ positions = <<>>
    /\ symbols = <<>>
    /\ unit = Scale
    /\ out = <<>>
    /\ err = "none"

\* read_v_sim(file)
Init ==
    /\ todo = <<"read">>
    /\ pc = Entry(todo)
    /\ file \in Files
    /\ fd = file
    /\ given = NoAtoms
    /\ atoms = NoAtoms
    /\ InitCommon

\* read_v_sim(file); write_v_sim(out, atoms); read_v_sim(out)
InitIdem ==
    /\ todo = <<"read", "write", "read">>
    /\ pc = Entry(todo)
    /\ file \in IdemFiles
    /\ fd = file
    /\ given = NoAtoms
    /\ atoms = NoAtoms
    /\ InitCommon

\* write_v_sim(out, record); read_v_sim(out)
InitTrip ==
    /\ todo = <<"write", "read">>
    /\ pc = Entry(todo)
    /\ file = <<>>
    /\ fd = <<>>
    /\ given \in Records
    /\ atoms = given
    /\ InitCommon

Spec == Init /\ [][ReadNext]_vars
SpecIdem == InitIdem /\ [][Next]_vars
SpecTrip == InitTrip /\ [][Next]_vars

\* ------------------------------------------------- reading a file's text
\* What the claims say of a file, read off its text.
BodyOf(f) == SubSeq(f, 4, Len(f))

StartsWith(s, w) == Len(s) >= Len(w) /\ SubSeq(s, 1, Len(w)) = w

\* The line starts, after optional white space, with # or !.
IsComment(line) ==
    \E i \in 1..Len(line) :
        /\ line[i] \in {"#", "!"}
        /\ \A j \in 1..(i - 1) : IsSpace(line[j])

\* The text after the comment character, commas as blanks, in lower case.
AfterMarker(line) ==
    LET i == CHOOSE k \in 1..Len(line) : ~IsSpace(line[k])
    IN  Lower(ReplaceComma(SubSeq(line, i + 1, Len(line))))

\* The tokens after keyword: of a text whose first token starts with it.
TokensAfterKeyword(text) ==
    LET toks == Split(text)
    IN  IF toks # <<>> /\ StartsWith(toks[1], W_keyword)
        THEN (IF Len(toks[1]) > 8 THEN <<From(toks[1], 8)>> ELSE <<>>) \o Tail(toks)
        ELSE <<>>

\* Keyword tokens of a line when white space may stand between the comment
\* character and keyword: (the trimmed reading).
TrimmedTokens(line) ==
    IF IsComment(line) THEN TokensAfterKeyword(AfterMarker(line)) ELSE <<>>

\* Keyword tokens of a line when keyword: must follow the comment character
\* at once.
AdjacentTokens(line) ==
    IF IsComment(line) /\ AfterMarker(line) # <<>> /\ ~IsSpace(AfterMarker(line)[1])
    THEN TokensAfterKeyword(AfterMarker(line))
    ELSE <<>>

RECURSIVE Flatten(_)
Flatten(ss) == IF ss = <<>> THEN <<>> ELSE Head(ss) \o Flatten(Tail(ss))

\* The body lines read so far by the current read_v_sim.
LinesRead == SubSeq(fd, 4, fpos)

\* A node line: no comment, at least four tokens.
IsNodeLine(line) == ~IsComment(line) /\ Len(Split(line)) >= 4

NodeLinesOf(f) == SelectSeq(BodyOf(f), IsNodeLine)

\* Index in the file of its k-th node line.
NodeIndex(f, k) ==
    CHOOSE i \in 4..Len(f) :
        /\ IsNodeLine(f[i])
        /\ Cardinality({j \in 4..i : IsNodeLine(f[j])}) = k

\* The three numbers of a node line.
NodeNumbers(line) ==
    [i \in 1..3 |-> ParseFloat(Split(line)[i]).val]

\* The header numbers of a file.
HeaderNumbers(f) ==
    LET toks == Split(f[2]) \o Split(f[3])
    IN  [i \in 1..Len(toks) |-> ParseFloat(toks[i]).val]

\* The keyword tokens of the lines of f before line i.
KeywordsBefore(f, i) ==
    Flatten([j \in 1..(i - 4) |-> AdjacentTokens(f[j + 3])])

HasBohr(kw) == Range(kw) \cap {W_bohr, W_bohrd0, W_atomic, W_atomicd0} # {}

\* Header and node lines hold numbers where numbers are read.
WellFormed(f) ==
    /\ \A t \in Range(Split(f[2]) \o Split(f[3])) : ParseFloat(t).ok
    /\ \A i \in 4..Len(f) :
          IsNodeLine(f[i]) => \A k \in 1..3 : ParseFloat(Split(f[i])[k]).ok

\* A keyword line of the body carries the word, in the given spelling.
Carries(f, word) ==
    \E i \in 4..Len(f) :
        /\ IsComment(f[i])
        /\ StartsWith(AfterMarker(f[i]), W_keyword)
        /\ word \in Range(Split(ReplaceComma(f[i])))

Returned == pc = "done" /\ err = "none"

\* ------------------------------------------------------------------ claims
\* C1: read_v_sim raises NotImplementedError (UnsupportedFeature) for every
\* well-formed file with a keyword line carrying surface or freeBC.
C1_UnsupportedRaises ==
    (pc = "done" /\ WellFormed(file)
        /\ (Carries(file, W_surface) \/ Carries(file, W_freeBC)))
    => err = "NotImplementedError"

\* C3: one length unit per file: with any Bohr-family keyword in the file the
\* cell (without angdeg) and every node line of a file without reduced are
\* scaled by Bohr, otherwise none is.
C3_OneUnit ==
    (Returned /\ W_reduced \notin Range(keywords))
    => LET u == IF HasBohr(keywords) THEN Bohr ELSE Scale
       IN  /\ W_angdeg \notin Range(keywords)
                => atoms.cell = ScaleCell(FillCell(HeaderNumbers(file)).cell, u)
           /\ \A k \in 1..Len(atoms.positions) :
                \A i \in 1..3 :
                   atoms.positions[k][i] = Mul(u, NodeNumbers(NodeLinesOf(file)[k])[i])

\* C4 as stated: a comment line adds its tokens exactly when the trimmed text
\* after the comment character begins with keyword:.
C4_TrimmedKeyword ==
    pc \in {"body", "done"}
    => keywords = Flatten([i \in 1..Len(LinesRead) |-> TrimmedTokens(LinesRead[i])])

\* C4 amended: a comment line adds its tokens exactly when keyword: (in any
\* letter case) follows the comment character at once; the tokens are the
\* rest of the line, commas as blanks, in lower case.
C4_AdjacentKeyword ==
    pc \in {"body", "done"}
    => keywords = Flatten([i \in 1..Len(LinesRead) |-> AdjacentTokens(LinesRead[i])])

\* '#KEYWORD: Reduced,Bohr' and '# keyword: reduced' have been read: the
\* first added reduced and bohr, the second nothing.
C4_Witness ==
    /\ pc = "body"
    /\ LinesRead = <<L_spaced, L_upper>>
    /\ keywords = <<W_reduced, W_bohr>>

\* C7: with reduced in the keyword set, every position is the conversion of
\* exactly the three numbers of its node line against the cell.
C7_ReducedUnscaled ==
    (Returned /\ W_reduced \in Range(keywords))
    => \A k \in 1..Len(atoms.positions) :
          atoms.positions[k] = ScaledToAbs(atoms.cell, NodeNumbers(NodeLinesOf(file)[k]))

\* C8: a returned record has one atom per node line, in file order; comment
\* lines and lines of fewer than four tokens give no atom; a file of a title
\* and six header numbers with no body returns a record of no atoms.
C8_AtomPerNodeLine ==
    /\ Returned
       => /\ Len(atoms.positions) = Len(NodeLinesOf(file))
          /\ atoms.symbols =
                [k \in 1..Len(NodeLinesOf(file)) |-> Split(NodeLinesOf(file)[k])[4]]
    /\ (pc = "done" /\ BodyOf(file) = <<>> /\ WellFormed(file)
          /\ Len(HeaderNumbers(file)) = 6)
       => Returned /\ atoms.positions = <<>>

\* A comment of four tokens, a line of three tokens and a node line were read.
C8_Witness ==
    /\ Returned
    /\ BodyOf(file) = <<L_comment, L_short, L_nodeO>>
    /\ atoms.symbols = <<W_O>>

\* C9: with angdeg the cell is cellpar_to_cell of the six header numbers with
\* no unit factor, while node lines read after a Bohr-family keyword (and
\* before any reduced) are scaled by Bohr; without angdeg the header numbers
\* fill xx, yx, yy, zx, zy, zz and the matrix is scaled by the unit.
C9_AngdegNoUnit ==
    Returned
    => LET h == HeaderNumbers(file)
           u == IF HasBohr(keywords) THEN Bohr ELSE Scale
       IN  IF W_angdeg \in Range(keywords)
           THEN /\ atoms.cell = cellpar_to_cell(h).cell
                /\ atoms.cell[1] = <<h[1], 0, 0>>
                /\ \A k \in 1..Len(positions) :
                     LET i == NodeIndex(file, k)
                         before == KeywordsBefore(file, i)
                     IN  (HasBohr(before) /\ W_reduced \notin Range(before))
                         => positions[k] = [c \in 1..3 |-> Mul(Bohr, NodeNumbers(file[i])[c])]
           ELSE atoms.cell = << <<Mul(u, h[1]), 0, 0>>,
                                <<Mul(u, h[2]), Mul(u, h[3]), 0>>,
                                <<Mul(u, h[4]), Mul(u, h[5]), Mul(u, h[6])>> >>

\* angdeg and bohr were read before a node line: the cell is unscaled, the
\* node scaled.
C9_Witness ==
    /\ Returned
    /\ BodyOf(file) = <<L_angdeg, L_bohr, L_nodeH>>
    /\ atoms.cell[1][1] = 2 * Scale
    /\ atoms.positions = <<<<Bohr, 0, 0>>>>

\* ------------------------------------------------- claims on write_v_sim
AllPeriodic == <<TRUE, TRUE, TRUE>>
SurfacePbc  == <<TRUE, FALSE, TRUE>>

\* The periodicity keyword the claim names for a pattern, <<>> for none.
ClaimedWord(pbc) ==
    LET n == Cardinality({i \in 1..3 : pbc[i]})
    IN  IF n = 3 THEN W_periodic
        ELSE IF n = 0 THEN W_freeBC
        ELSE IF pbc[1] /\ ~pbc[2] /\ pbc[3] THEN W_surface
        ELSE <<>>

\* Indices of the periodicity keyword lines of a stream.
PeriodicityLines(stream) ==
    {i \in 1..Len(stream) :
        stream[i] \in {KeywordLine(W_periodic), KeywordLine(W_freeBC), KeywordLine(W_surface)}}

\* A line of three numbers.
IsNumbers(line) ==
    /\ Len(Split(line)) = 3
    /\ \A t \in Range(Split(line)) : ParseFloat(t).ok

\* C5: for the three supported patterns write_v_sim writes exactly one
\* periodicity keyword line, the one of the pattern, after the reduced and
\* angstroem lines and before the atom lines; for the other five patterns it
\* raises and writes no periodicity line.
C5_OnePeriodicityLine ==
    LET word == ClaimedWord(given.pbc)
    IN  /\ pc \in {"begin", "pbc"} => PeriodicityLines(out) = {}
        /\ pc \notin {"begin", "pbc"} =>
             IF word # <<>>
             THEN /\ err # "Exception"
                  /\ PeriodicityLines(out) = {6}
                  /\ out[6] = KeywordLine(word)
                  /\ out[4] = KeywordLine(W_reduced)
                  /\ out[5] = KeywordLine(W_angstroem)
                  /\ \A i \in 7..Len(out) : Len(Split(out[i])) = 4
                  /\ pc # "atoms" => Len(out) = 6 + Len(given.positions)
             ELSE /\ err = "Exception"
                  /\ pc = "done"
                  /\ PeriodicityLines(out) = {}

\* A surface record with an atom has been written in full.
C5_Witness ==
    /\ given.pbc = SurfacePbc
    /\ Len(out) = 7
    /\ out[6] = KeywordLine(W_surface)

\* C10: when write_v_sim raises for the periodicity, the stream holds exactly
\* the title line, the two cell lines and the reduced and angstroem lines.
C10_PartialFile ==
    err = "Exception"
    => /\ Len(out) = 5
       /\ out[1] = TitleLine
       /\ IsNumbers(out[2])
       /\ IsNumbers(out[3])
       /\ out[4] = KeywordLine(W_reduced)
       /\ out[5] = KeywordLine(W_angstroem)

\* write_v_sim raised for a record with atoms, periodic along x and y only.
C10_Witness ==
    /\ err = "Exception"
    /\ given.pbc = <<TRUE, TRUE, FALSE>>
    /\ Len(given.positions) >= 1
    /\ Len(out) = 5

\* ------------------------------------------------------------- round trips
\* Two position lists agree within the tolerance.
Close(p, q) ==
    /\ Len(p) = Len(q)
    /\ \A k \in 1..Len(p) : \A i \in 1..3 : Abs(p[k][i] - q[k][i]) <= Tol

PositiveDiagonal(cell) == \A i \in 1..3 : cell[i][i] > 0

\* Every atom lies in the cell: scaled coordinates in [0, 1).
InsideCell(r) ==
    \A k \in 1..Len(r.positions) :
        \A i \in 1..3 :
            LET f == AbsToScaled(r.cell, r.positions[k])[i]
            IN  0 <= f /\ f < Scale

\* The record read back is the record given.
SameRecord ==
    /\ err = "none"
    /\ todo = <<>>
    /\ atoms.symbols = given.symbols
    /\ Close(atoms.positions, given.positions)

FirstReturned == Len(todo) < 3

====
